---- MODULE Spec2Model ----
(***************************************************************************)
(* State-machine model of gramjs/network/MTProtoSender.ts.                 *)
(*                                                                         *)
(* The sender is a single-threaded cooperative program: every action below *)
(* is the code that runs between two suspension points (an await on I/O,   *)
(* on a timer or on the packer's get()).  MessagePacker, RequestState and  *)
(* MTProtoState are not part of the modelled source file; their behaviour  *)
(* is taken from the design document and marked so in the model map.       *)
(***************************************************************************)
EXTENDS Integers, Sequences, FiniteSets, TLC

\* ------------------------------------------------------------- bounds
\* Sizes of the model's arrays
NReq == 2        \* request objects the caller may submit through send()
MaxConn == 4     \* connection objects that may ever be attached
MaxRc == 2       \* reconnect sequences that may be scheduled or in flight at once
\* Budgets of the environment (the caller, the network, the server) in the
\* protocol runs: one connection, every kind of server message
ProtoRecv == 2   \* frames the server delivers
\* and in the life-cycle runs: connects, disconnects, faults and reconnects,
\* with the server messages that settle or re-queue a request
LifeConn == 2    \* connection objects attached
LifeRecv == 1    \* frames the server delivers
LifeFault == 2   \* transport faults on an open connection
\* and in the settle-once runs
OnceConn == 2    \* connection objects attached
OnceRecv == 2    \* frames the server delivers
\* and in the broken-key runs
BreakConn == 2   \* connection objects attached
BreakRecv == 1   \* frames the server delivers
\* and in the reconnect-guard runs
GuardConn == 4   \* connection objects attached
GuardFault == 2  \* transport faults on an open connection
\* and in the acknowledgement runs
AcksRecv == 11   \* frames the server delivers

\* ------------------------------------------------------ configuration
Retries == 2                 \* opts.retries (this._retries)
HasUpdateCallback == TRUE    \* opts.updateCallback is configured
HasOnConnectionBreak == TRUE \* opts.onConnectionBreak is configured
HasAutoReconnectCallback == TRUE

\* ------------------------------------------------------------ values
Req == 1..NReq
NoState == 0                 \* Map.get() -> undefined
SrvBase == 100               \* the server's k-th frame has msg id SrvBase + k
AnswerBase == 150            \* answerMsgId of the detailed info in the k-th frame
Salts == {11, 12}            \* server salts announced by the server
BodyFile == 1                \* rpc_result body that parses as upload.File
BodyOther == 2               \* body that parses as some other known object
BodyUnknown == 3             \* body with an unknown constructor (TypeNotFoundError)
Bodies == {BodyFile, BodyOther, BodyUnknown}
BadCodes == {16, 17, 32, 33, 48}

\* The request objects the caller submits: request 2 is an auth.LogOut, the
\* others are ordinary RPCs (all have classType "request").
RequestClass(i) == IF i = 2 THEN "auth.LogOut" ELSE "rpc"

\* ---------------------------------------------------- RequestState
NoRes == [k |-> "none", by |-> 0, arg |-> 0]
NewRS == [st |-> "new", res |-> NoRes, msgId |-> 0, containerId |-> 0, calls |-> 0]

\* new RequestState(request): a pending completion handle, no msgId yet
CreatedRS == [NewRS EXCEPT !.st = "pending"]

\* state.resolve(v) / state.reject(e): the handle is a one-shot promise, the
\* first call settles it and later calls are no-ops; calls counts the calls.
Settle(r, how, res) ==
    IF r.st = "pending"
    THEN [r EXCEPT !.st = how, !.res = res, !.calls = @ + 1]
    ELSE [r EXCEPT !.calls = @ + 1]

Resolve(r, res) == Settle(r, "resolved", res)
Reject(r, res) == Settle(r, "rejected", res)

\* request.readResult(reader): the request's own parse of the result body
ReadResult(i, body) == [k |-> "result", by |-> i, arg |-> body]
\* RPCMessageToError(error, request)
RPCMessageToError(err, i) == [k |-> "rpcError", by |-> i, arg |-> err]
\* new BadMessageError(request, code)
BadMessageError(i, code) == [k |-> "badMsg", by |-> i, arg |-> code]
DisconnectError == [k |-> "disconnect", by |-> 0, arg |-> 0]

\* ---------------------------------------------------- queue entries
\* A queued RequestState: a caller's request (id = its index), a MsgsAck
\* (id = serial of the ack object, ids = acknowledged msg ids, mid = the msg id
\* the packer gave it), a MsgsStateInfo, or the undefined shutdown sentinel.
ReqE(i) == [kind |-> "req", id |-> i, ids |-> {}, mid |-> 0]
AckE(ser, S) == [kind |-> "ack", id |-> ser, ids |-> S, mid |-> 0]
InfoE(m) == [kind |-> "info", id |-> m, ids |-> {}, mid |-> 0]
Nil == [kind |-> "nil", id |-> 0, ids |-> {}, mid |-> 0]

\* ------------------------------------------------- Map<string, state>
\* The pending-state map keeps insertion order; key stands for msgId.toString().
MapHas(p, k) == \E n \in 1..Len(p) : p[n].key = k

MapGet(p, k) ==
    IF MapHas(p, k) THEN (CHOOSE n \in 1..Len(p) : p[n].key = k) ELSE 0

MapGetId(p, k) == IF MapHas(p, k) THEN p[MapGet(p, k)].id ELSE NoState

MapDelete(p, k) == SelectSeq(p, LAMBDA e : e.key # k)

\* Map.set: an existing key keeps its position and takes the new value
MapSet(p, k, i) ==
    IF MapHas(p, k)
    THEN [n \in 1..Len(p) |-> IF p[n].key = k THEN [key |-> k, id |-> i] ELSE p[n]]
    ELSE Append(p, [key |-> k, id |-> i])

\* Array.from(map.values())
MapValues(p) == [n \in 1..Len(p) |-> ReqE(p[n].id)]

\* Map.get(obj) with a BigInteger object as key: keys are compared by identity
\* and every key of the map is a string, so nothing is found.
MapGetByObject(p, obj) == NoState

\* a === b on two BigInteger objects: identity.  The msg id held by a state was
\* allocated by the packer, the one in a received message by the deserializer.
BigIntStrictEq(a, b) == FALSE

RECURSIVE SeqToSet(_)
SeqToSet(q) == IF q = <<>> THEN {} ELSE {Head(q)} \cup SeqToSet(Tail(q))

ReqIdsOf(es) == [n \in 1..Len(es) |-> es[n].id]

\* ------------------------------------------------------ MessagePacker
\* rejectAll(): every queued RequestState is rejected with a "disconnected"
\* error and the queue is emptied.
RejectOne(r, e) ==
    IF e.kind = "req" THEN [r EXCEPT ![e.id] = Reject(@, DisconnectError)] ELSE r

RECURSIVE RejectEntries(_, _)
RejectEntries(r, es) ==
    IF es = <<>> THEN r ELSE RejectEntries(RejectOne(r, Head(es)), Tail(es))

\* The entries get() drains: the queue up to the first shutdown sentinel.
RECURSIVE BatchPrefix(_)
BatchPrefix(q) ==
    IF q = <<>> \/ Head(q).kind = "nil" THEN <<>>
    ELSE <<Head(q)>> \o BatchPrefix(Tail(q))

\* get() assigns every drained entry a fresh msg id, in queue order, through
\* state.getNewMsgId(); a batch of several is wrapped in a container whose own
\* msg id is allocated after the inner ones.
PackIds(es, last) == [n \in 1..Len(es) |-> last + n]

ContainerIdOf(es, last) == IF Len(es) > 1 THEN last + Len(es) + 1 ELSE 0

PackRs(r, es, last) ==
    [i \in Req |->
        IF \E n \in 1..Len(es) : es[n].kind = "req" /\ es[n].id = i
        THEN LET n == CHOOSE n \in 1..Len(es) : es[n].kind = "req" /\ es[n].id = i
             IN [r[i] EXCEPT !.msgId = last + n,
                             !.containerId =
                                 IF Len(es) > 1 THEN ContainerIdOf(es, last) ELSE @]
        ELSE r[i]]

PackEntries(es, last) == [n \in 1..Len(es) |-> [es[n] EXCEPT !.mid = last + n]]

\* msg ids a batch puts on the wire
BatchMsgIds(es, last) ==
    {last + n : n \in 1..Len(es)} \cup
        (IF Len(es) > 1 THEN {ContainerIdOf(es, last)} ELSE {})

\* content-related messages (requests) advance state._sequence by one
ContentRelated(es) == Cardinality({n \in 1..Len(es) : es[n].kind = "req"})

\* the ack objects of the last-acks ring are the queued ones: the msg id the
\* packer assigns shows in the ring too
StampAcks(acks, es) ==
    [n \in 1..Len(acks) |->
        IF \E k \in 1..Len(es) : es[k].kind = "ack" /\ es[k].id = acks[n].id /\ es[k].id # 0
        THEN LET k == CHOOSE k \in 1..Len(es) : es[k].kind = "ack" /\ es[k].id = acks[n].id
             IN [acks[n] EXCEPT !.mid = es[k].mid]
        ELSE acks[n]]

\* -------------------------------------------------- response handlers
\* The handlers run without suspending; each is a function of the sender's
\* fields h (requests, current send queue, pending-state map, pending-ack set,
\* MTProtoState fields) and the received message.  h.ids logs the states a
\* handler popped or settled, h.saltAt the salt in force when states were
\* re-queued, h.threw an exception that leaves the handler.

_popStates(h, msgId) ==
    IF MapHas(h.pending, msgId)
    THEN [states |-> <<ReqE(MapGetId(h.pending, msgId))>>,
          pending |-> MapDelete(h.pending, msgId)]
    ELSE
      LET hit == SelectSeq(h.pending,
                     LAMBDA e : h.rs[e.id].containerId # 0
                                /\ h.rs[e.id].containerId = msgId)
          toPop == [n \in 1..Len(hit) |-> h.rs[hit[n].id].msgId]
          temp == [n \in 1..Len(toPop) |->
                      IF MapGetId(h.pending, toPop[n]) = NoState
                      THEN Nil ELSE ReqE(MapGetId(h.pending, toPop[n]))]
          acks == SelectSeq(h.lastAcks, LAMBDA a : BigIntStrictEq(a.mid, msgId))
      IN IF Len(toPop) > 0
         THEN [states |-> temp,
               pending |-> SelectSeq(h.pending,
                               LAMBDA e : e.key \notin SeqToSet(toPop))]
         ELSE IF Len(acks) > 0
         THEN [states |-> <<Head(acks)>>, pending |-> h.pending]
         ELSE [states |-> <<>>, pending |-> h.pending]

\* faulty variant: the result is delivered but the entry stays in the map
_handleRPCResult_keepEntry(h, msg) ==
    LET i == MapGetId(h.pending, msg.m) IN
    IF i = NoState
    THEN IF msg.body = BodyOther THEN [h EXCEPT !.threw = TRUE] ELSE h
    ELSE IF msg.code # 0 /\ h.rs[i].msgId # 0
         THEN [h EXCEPT !.q = Append(@, AckE(0, {h.rs[i].msgId})),
                        !.rs[i] = Reject(@, RPCMessageToError(msg.code, i)),
                        !.ids = Append(@, i)]
         ELSE [h EXCEPT !.rs[i] = Resolve(@, ReadResult(i, msg.body)),
                        !.ids = Append(@, i)]

_handleRPCResult(h, msg) ==
    LET i == MapGetId(h.pending, msg.m) IN
    IF i = NoState
    THEN \* no parent request: only a body that is not an upload.File and
         \* parses as something else throws out of the handler
         IF msg.body = BodyOther THEN [h EXCEPT !.threw = TRUE] ELSE h
    ELSE LET p1 == MapDelete(h.pending, msg.m) IN
         IF msg.code # 0 /\ h.rs[i].msgId # 0
         THEN [h EXCEPT !.pending = p1,
                        !.q = Append(@, AckE(0, {h.rs[i].msgId})),
                        !.rs[i] = Reject(@, RPCMessageToError(msg.code, i)),
                        !.ids = Append(@, i)]
         ELSE [h EXCEPT !.pending = p1,
                        !.rs[i] = Resolve(@, ReadResult(i, msg.body)),
                        !.ids = Append(@, i)]

\* faulty variant: the pong is delivered but the entry stays in the map
_handlePong_keepEntry(h, msg) ==
    LET i == MapGetId(h.pending, msg.m) IN
    IF i = NoState THEN h
    ELSE [h EXCEPT !.rs[i] = Resolve(@, [k |-> "pong", by |-> 0, arg |-> msg.m]),
                   !.ids = Append(@, i)]

_handlePong(h, msg) ==
    LET i == MapGetId(h.pending, msg.m) IN
    IF i = NoState THEN h
    ELSE [h EXCEPT !.pending = MapDelete(@, msg.m),
                   !.rs[i] = Resolve(@, [k |-> "pong", by |-> 0, arg |-> msg.m]),
                   !.ids = Append(@, i)]

\* faulty variant: the states are re-queued before the new salt is stored
_handleBadServerSalt_saltLast(h, msg) ==
    LET pop == _popStates(h, msg.m)
    IN [h EXCEPT !.pending = pop.pending,
                 !.q = @ \o pop.states,
                 !.saltAt = h.salt,
                 !.salt = msg.code,
                 !.ids = @ \o ReqIdsOf(pop.states)]

\* faulty variant: the states are queued again but stay in the map
_handleBadServerSalt_keepEntry(h, msg) ==
    LET h1 == [h EXCEPT !.salt = msg.code]
        pop == _popStates(h1, msg.m)
    IN [h1 EXCEPT !.q = @ \o pop.states,
                  !.saltAt = h1.salt,
                  !.ids = @ \o ReqIdsOf(pop.states)]

_handleBadServerSalt(h, msg) ==
    LET h1 == [h EXCEPT !.salt = msg.code]
        pop == _popStates(h1, msg.m)
    IN [h1 EXCEPT !.pending = pop.pending,
                  !.q = @ \o pop.states,
                  !.saltAt = h1.salt,
                  !.ids = @ \o ReqIdsOf(pop.states)]

RejectStates(r, es, code) ==
    [i \in Req |->
        IF \E n \in 1..Len(es) : es[n].kind = "req" /\ es[n].id = i
        THEN Reject(r[i], BadMessageError(i, code)) ELSE r[i]]

\* faulty variant: no return after the rejections, the states are queued again
_handleBadNotification_noReturn(h, msg) ==
    LET pop == _popStates(h, msg.m)
        h1 == [h EXCEPT !.pending = pop.pending, !.ids = @ \o ReqIdsOf(pop.states)]
        requeue(x) == [x EXCEPT !.q = @ \o pop.states, !.saltAt = x.salt]
    IN IF msg.code \in {16, 17}
       THEN requeue([h1 EXCEPT !.offsetSrc = msg.srv])
       ELSE IF msg.code = 32
       THEN requeue([h1 EXCEPT !.sequence = @ + 64])
       ELSE IF msg.code = 33
       THEN requeue([h1 EXCEPT !.sequence = @ - 16])
       ELSE requeue([h1 EXCEPT !.rs = RejectStates(@, pop.states, msg.code)])

\* faulty variant: the time offset is computed from the bad message's id
_handleBadNotification_badId(h, msg) ==
    LET pop == _popStates(h, msg.m)
        h1 == [h EXCEPT !.pending = pop.pending, !.ids = @ \o ReqIdsOf(pop.states)]
        requeue(x) == [x EXCEPT !.q = @ \o pop.states, !.saltAt = x.salt]
    IN IF msg.code \in {16, 17}
       THEN requeue([h1 EXCEPT !.offsetSrc = msg.m])
       ELSE IF msg.code = 32
       THEN requeue([h1 EXCEPT !.sequence = @ + 64])
       ELSE IF msg.code = 33
       THEN requeue([h1 EXCEPT !.sequence = @ - 16])
       ELSE [h1 EXCEPT !.rs = RejectStates(@, pop.states, msg.code)]

_handleBadNotification(h, msg) ==
    LET pop == _popStates(h, msg.m)
        h1 == [h EXCEPT !.pending = pop.pending, !.ids = @ \o ReqIdsOf(pop.states)]
        requeue(x) == [x EXCEPT !.q = @ \o pop.states, !.saltAt = x.salt]
    IN IF msg.code \in {16, 17}
       THEN requeue([h1 EXCEPT !.offsetSrc = msg.srv])
       ELSE IF msg.code = 32
       THEN requeue([h1 EXCEPT !.sequence = @ + 64])
       ELSE IF msg.code = 33
       THEN requeue([h1 EXCEPT !.sequence = @ - 16])
       ELSE [h1 EXCEPT !.rs = RejectStates(@, pop.states, msg.code)]

_handleDetailedInfo(h, msg) == [h EXCEPT !.pendingAck = @ \cup {msg.m}]

_handleNewDetailedInfo(h, msg) == [h EXCEPT !.pendingAck = @ \cup {msg.m}]

_handleNewSessionCreated(h, msg) == [h EXCEPT !.salt = msg.code]

\* for (msgId of ack.msgIds): the lookup uses the BigInteger itself as key
_handleAck(h, msg) ==
    LET i == MapGetByObject(h.pending, msg.m) IN
    IF i # NoState /\ RequestClass(i) = "auth.LogOut"
    THEN [h EXCEPT !.pending = MapDelete(@, msg.m),
                   !.rs[i] = Resolve(@, [k |-> "true", by |-> 0, arg |-> 0]),
                   !.ids = Append(@, i)]
    ELSE h

\* keyed by the server message's own msg id
_handleFutureSalts(h, msg) ==
    LET i == MapGetId(h.pending, msg.srv) IN
    IF i = NoState THEN h
    ELSE [h EXCEPT !.pending = MapDelete(@, msg.srv),
                   !.rs[i] = Resolve(@, [k |-> "salts", by |-> 0, arg |-> msg.srv]),
                   !.ids = Append(@, i)]

_handleStateForgotten(h, msg) == [h EXCEPT !.q = Append(@, InfoE(msg.srv))]

_handleMsgAll(h, msg) == h

\* msg.code = 1: the object is an Updates subclass and goes to updateCallback
_handleUpdate(h, msg) ==
    IF msg.code # 1 THEN h
    ELSE IF HasUpdateCallback THEN [h EXCEPT !.upd = "update"] ELSE h

\* the jump table of the constructor, for the messages that hold no others
Dispatch(h, msg) ==
    CASE msg.t = "rpc_result" -> _handleRPCResult(h, msg)
      [] msg.t = "pong" -> _handlePong(h, msg)
      [] msg.t = "bad_server_salt" -> _handleBadServerSalt(h, msg)
      [] msg.t = "bad_msg_notification" -> _handleBadNotification(h, msg)
      [] msg.t = "msg_detailed_info" -> _handleDetailedInfo(h, msg)
      [] msg.t = "msg_new_detailed_info" -> _handleNewDetailedInfo(h, msg)
      [] msg.t = "new_session_created" -> _handleNewSessionCreated(h, msg)
      [] msg.t = "msgs_ack" -> _handleAck(h, msg)
      [] msg.t = "future_salts" -> _handleFutureSalts(h, msg)
      [] msg.t = "msgs_state_req" -> _handleStateForgotten(h, msg)
      [] msg.t = "msgs_all_info" -> _handleMsgAll(h, msg)
      [] OTHER -> _handleUpdate(h, msg)

\* _processMessage for a message that holds no others
ProcessPlain(h, msg) ==
    Dispatch([h EXCEPT !.pendingAck = @ \cup {msg.srv}], msg)

\* _handleContainer: the inner messages in order; an exception thrown by one
\* leaves the loop
RECURSIVE _handleContainer(_, _)
_handleContainer(h, inner) ==
    IF inner = <<>> \/ h.threw THEN h
    ELSE _handleContainer(ProcessPlain(h, Head(inner)), Tail(inner))

\* _handleGzipPacked: the unpacked object is processed as the same message
_handleGzipPacked(h, msg) == ProcessPlain(h, Head(msg.inner))

_processMessage(h, msg) ==
    LET h1 == [h EXCEPT !.pendingAck = @ \cup {msg.srv}] IN
    IF msg.t = "msg_container" THEN _handleContainer(h1, msg.inner)
    ELSE IF msg.t = "gzip_packed" THEN _handleGzipPacked(h1, msg)
    ELSE Dispatch(h1, msg)

\* ------------------------------------------------------------- state
VARIABLES
    rs,               \* the RequestState of each request of the caller
    queue,            \* the queue of every MessagePacker ever created (0: the constructor's)
    sendQ,            \* this._sendQueue: index of the current packer
    pending,          \* this._pendingState, in insertion order
    pendingAck,       \* this._pendingAck
    lastAcks,         \* this._lastAcks
    ackSer,           \* ack objects created by the send loops so far
    salt,             \* this._state.salt
    sequence,         \* this._state._sequence
    lastMsgId,        \* last msg id handed out by this._state
    offsetSrc,        \* msg id the time offset was last computed from (-1: the handshake)
    session,          \* number of state.reset() calls (stands for the session id)
    userConnected,    \* this._userConnected
    reconnecting,     \* this._reconnecting
    userDisconnected, \* this.userDisconnected
    isConnecting,     \* this.isConnecting
    authenticated,    \* this._authenticated
    authKey,          \* this.authKey.getKey() is set
    connection,       \* this._connection (0: undefined)
    connState,        \* each connection object: "none", "new", "open", "closed"
    nConn,            \* connection objects created so far
    sendLoop,         \* the _sendLoop task each successful _connect started
    recvLoop,         \* the _recvLoop task each successful _connect started
    nGen,             \* successful _connect calls so far
    task,             \* connect() calls in flight: 0 the caller's, 1..MaxRc those of _reconnect
    wire,             \* msg ids written to a transport
    nRecv,            \* frames delivered so far
    nFault,           \* transport faults injected so far
    lim,              \* the budgets of the environment in this run
    userCalled,       \* the caller has called disconnect()
    ev                \* the step just taken: what ran, on what, what it called back

vars == <<rs, queue, sendQ, pending, pendingAck, lastAcks, ackSer, salt, sequence,
          lastMsgId, offsetSrc, session, userConnected, reconnecting,
          userDisconnected, isConnecting, authenticated, authKey, connection,
          connState, nConn, sendLoop, recvLoop, nGen, task, wire, nRecv, nFault, lim, userCalled, ev>>

Conns == 1..MaxConn
Gens == 1..MaxConn
Tasks == 0..MaxRc
RcTasks == 1..MaxRc

LastAcksLimit == 10
HandshakeOffset == -1

NoEv == [op |-> "init", g |-> 0, m |-> 0, srv |-> 0, code |-> 0, body |-> 0,
         ids |-> <<>>, upd |-> "none", saltAt |-> 0, threw |-> FALSE, cb |-> "none",
         by |-> "none"]

Ev(op) == [NoEv EXCEPT !.op = op]

\* by: what started the task (connect(): "user"; reconnect(): its caller)
IdleTask == [pc |-> "idle", attempt |-> 0, conn |-> 0, by |-> "none"]
NoSendLoop == [pc |-> "none", q |-> 0, es |-> <<>>, mids |-> {}]
NoRecvLoop == [pc |-> "none", conn |-> 0]

\* constructor
Constructed ==
    /\ rs = [i \in Req |-> NewRS]
    /\ queue = [g \in 0..MaxConn |-> <<>>]
    /\ sendQ = 0
    /\ pending = <<>>
    /\ pendingAck = {}
    /\ lastAcks = <<>>
    /\ ackSer = 0
    /\ salt = 0
    /\ sequence = 0
    /\ lastMsgId = 0
    /\ offsetSrc = 0
    /\ session = 0
    /\ userConnected = FALSE
    /\ reconnecting = FALSE
    /\ userDisconnected = FALSE
    /\ isConnecting = FALSE
    /\ authenticated = FALSE
    /\ connection = 0
    /\ connState = [c \in Conns |-> "none"]
    /\ nConn = 0
    /\ sendLoop = [g \in Gens |-> NoSendLoop]
    /\ recvLoop = [g \in Gens |-> NoRecvLoop]
    /\ nGen = 0
    /\ task = [t \in Tasks |-> IdleTask]
    /\ wire = {}
    /\ nRecv = 0
    /\ nFault = 0
    /\ userCalled = FALSE
    /\ ev = NoEv

AllKinds == {"rpc_result", "pong", "bad_server_salt", "bad_msg_notification",
             "msgs_ack", "msg_detailed_info", "msg_new_detailed_info",
             "new_session_created", "future_salts", "msgs_state_req",
             "msgs_all_info", "update", "msg_container", "gzip_packed"}

SettlingKinds == {"rpc_result", "pong", "bad_server_salt", "bad_msg_notification",
                  "msgs_ack"}

\* the protocol runs: with or without an authorization key at construction
InitProto ==
    /\ Constructed
    /\ authKey \in BOOLEAN
    /\ lim = [req |-> NReq, conn |-> 1, rc |-> 0, recv |-> ProtoRecv, fault |-> 0,
              kinds |-> AllKinds, salts |-> Salts, codes |-> BadCodes,
              bodies |-> Bodies,
              main |-> FALSE]

\* the settle-once runs: one request, every message that settles or re-queues
\* it delivered up to twice, one reconnect
InitOnce ==
    /\ Constructed
    /\ authKey = FALSE
    /\ lim = [req |-> 1, conn |-> OnceConn, rc |-> 1, recv |-> OnceRecv,
              fault |-> 1, kinds |-> SettlingKinds, salts |-> {11},
              codes |-> {48}, bodies |-> {BodyOther}, main |-> FALSE]

\* the acknowledgement runs: one connection, one request, a long series of
\* frames that only need acknowledging
InitAcks ==
    /\ Constructed
    /\ authKey = TRUE
    /\ lim = [req |-> 1, conn |-> 1, rc |-> 0, recv |-> AcksRecv, fault |-> 0,
              kinds |-> {"msgs_all_info", "pong"}, salts |-> {11}, codes |-> {48},
              bodies |-> {BodyOther}, main |-> FALSE]

\* the broken-key runs: a main sender or a secondary one, one request, one
\* frame, one reconnect
InitBreak ==
    /\ Constructed
    /\ authKey = TRUE
    /\ \E main \in BOOLEAN :
          lim = [req |-> 1, conn |-> BreakConn, rc |-> 1, recv |-> BreakRecv,
                 fault |-> 1, kinds |-> {"rpc_result"}, salts |-> {11},
                 codes |-> {48}, bodies |-> {BodyOther}, main |-> main]

\* the reconnect-guard runs: connects, reconnects and transport faults, no
\* requests and no frames
InitGuard ==
    /\ Constructed
    /\ authKey = TRUE
    /\ lim = [req |-> 0, conn |-> GuardConn, rc |-> MaxRc, recv |-> 0,
              fault |-> GuardFault, kinds |-> {}, salts |-> {11}, codes |-> {48},
              bodies |-> {BodyOther}, main |-> FALSE]

\* the life-cycle runs
InitLife ==
    /\ Constructed
    /\ authKey = FALSE
    /\ lim = [req |-> NReq, conn |-> LifeConn, rc |-> MaxRc, recv |-> LifeRecv,
              fault |-> LifeFault, kinds |-> SettlingKinds, salts |-> {11},
              codes |-> {16, 48}, bodies |-> {BodyOther}, main |-> FALSE]

\* isConnected()
isConnected == userConnected

\* opts.isMainSender, fixed at construction
IsMainSender == lim.main

\* ------------------------------------------------- shared code paths
\* The head of the _sendLoop while loop, up to the await on get(): the loop
\* condition and the drain of the pending-ack set into one MsgsAck.  f holds
\* the fields it reads and writes.
\* faulty variant: the pending-ack set is not cleared after the drain
SendLoopHead_noClear(f) ==
    IF ~(f.userConnected /\ ~f.reconnecting) THEN [f EXCEPT !.run = FALSE]
    ELSE IF f.pendingAck = {} THEN [f EXCEPT !.run = TRUE]
    ELSE LET ack == AckE(f.ackSer + 1, f.pendingAck)
             pushed == Append(f.lastAcks, ack)
         IN [f EXCEPT !.run = TRUE,
                      !.queue[f.sendQ] = Append(@, ack),
                      !.lastAcks = IF Len(pushed) >= LastAcksLimit
                                   THEN Tail(pushed) ELSE pushed,
                      !.ackSer = @ + 1]

\* faulty variant: a full ring drops the entry just pushed
SendLoopHead_dropNewest(f) ==
    IF ~(f.userConnected /\ ~f.reconnecting) THEN [f EXCEPT !.run = FALSE]
    ELSE IF f.pendingAck = {} THEN [f EXCEPT !.run = TRUE]
    ELSE LET ack == AckE(f.ackSer + 1, f.pendingAck)
             pushed == Append(f.lastAcks, ack)
         IN [f EXCEPT !.run = TRUE,
                      !.queue[f.sendQ] = Append(@, ack),
                      !.lastAcks = IF Len(pushed) >= LastAcksLimit
                                   THEN SubSeq(pushed, 1, Len(pushed) - 1) ELSE pushed,
                      !.ackSer = @ + 1,
                      !.pendingAck = {}]

SendLoopHead(f) ==
    IF ~(f.userConnected /\ ~f.reconnecting) THEN [f EXCEPT !.run = FALSE]
    ELSE IF f.pendingAck = {} THEN [f EXCEPT !.run = TRUE]
    ELSE LET ack == AckE(f.ackSer + 1, f.pendingAck)
             pushed == Append(f.lastAcks, ack)
         IN [f EXCEPT !.run = TRUE,
                      !.queue[f.sendQ] = Append(@, ack),
                      !.lastAcks = IF Len(pushed) >= LastAcksLimit
                                   THEN Tail(pushed) ELSE pushed,
                      !.ackSer = @ + 1,
                      !.pendingAck = {}]

LoopFields(uc, rc, pa, qs, sq, la, ser) ==
    [userConnected |-> uc, reconnecting |-> rc, pendingAck |-> pa, queue |-> qs,
     sendQ |-> sq, lastAcks |-> la, ackSer |-> ser, run |-> FALSE]

\* the send loop after the head: suspended in get() on the current packer, or finished
SendLoopAfter(f) ==
    IF f.run THEN [pc |-> "get", q |-> f.sendQ, es |-> <<>>, mids |-> {}]
    ELSE [pc |-> "done", q |-> 0, es |-> <<>>, mids |-> {}]

\* the receive loop at its while condition: suspended in recv() on the
\* current connection, or finished
RecvLoopHead(uc, rc, conn) ==
    IF uc /\ ~rc THEN [pc |-> "recv", conn |-> conn] ELSE [pc |-> "done", conn |-> 0]

\* reconnect(): guarded by the two flags; starts the one-second timer of a
\* reconnect sequence in a free slot
\* A send loop whose get() can return is resumed from the job queue, which is
\* drained before any timer or I/O completion is delivered.
JobsDrained ==
    \A g \in Gens : sendLoop[g].pc = "get" => queue[sendLoop[g].q] = <<>>

FreeRc == {t \in RcTasks : t <= lim.rc /\ task[t].pc = "idle"}
Reserved == Cardinality({t \in RcTasks : task[t].pc \in {"sleep", "closing"}})
RoomForRc == FreeRc # {} /\ nConn + Reserved < lim.conn
WouldReconnect == userConnected /\ ~reconnecting

reconnect(tk, by) ==
    IF WouldReconnect
    THEN [flag |-> TRUE,
          task |-> [tk EXCEPT ![CHOOSE t \in FreeRc : \A u \in FreeRc : t <= u] =
                                   [pc |-> "sleep", attempt |-> 0, conn |-> 0, by |-> by]]]
    ELSE [flag |-> reconnecting, task |-> tk]

\* faulty variant: the queue is emptied without rejecting what it holds
_disconnect_dropQueue ==
    /\ rs' = rs
    /\ queue' = [queue EXCEPT ![sendQ] = <<>>]
    /\ IF connection = 0
       THEN UNCHANGED <<userConnected, connState>>
       ELSE /\ userConnected' = FALSE
            /\ connState' = [connState EXCEPT ![connection] = "closed"]

\* _disconnect(): the queue is rejected and emptied, the update is emitted,
\* and with a connection attached the flag is cleared and the connection
\* closed; with none (undefined, not null) the log line throws first.
_disconnect ==
    /\ rs' = RejectEntries(rs, queue[sendQ])
    /\ queue' = [queue EXCEPT ![sendQ] = <<>>]
    /\ IF connection = 0
       THEN UNCHANGED <<userConnected, connState>>
       ELSE /\ userConnected' = FALSE
            /\ connState' = [connState EXCEPT ![connection] = "closed"]

DisconnectEv(op) ==
    [Ev(op) EXCEPT !.ids = ReqIdsOf(SelectSeq(queue[sendQ], LAMBDA e : e.kind = "req")),
                   !.upd = IF HasUpdateCallback THEN "disconnected" ELSE "none",
                   !.threw = (connection = 0)]

\* faulty variant: the pending states are put in front of the queue, last first
ReconnectTailQueue_front(q, p) ==
    [n \in 1..Len(p) |-> ReqE(p[Len(p) + 1 - n].id)] \o q

\* The end of _reconnect, after connect() returned: the flag is cleared, the
\* pending states go to the current queue in map order, the map is replaced.
ReconnectTailQueue(q, p) == q \o MapValues(p)

\* ------------------------------------------------------- public API
\* faulty variant: the connected check is missing
connect_unguarded(force) ==
    /\ task[0].pc = "idle"
    /\ nConn + Reserved < lim.conn
    /\ isConnecting' = TRUE
    /\ connection' = nConn + 1
    /\ nConn' = nConn + 1
    /\ connState' = [connState EXCEPT ![nConn + 1] = "new"]
    /\ task' = [task EXCEPT ![0] =
                   [pc |-> "connecting", attempt |-> 0, conn |-> nConn + 1,
                    by |-> "user"]]
    /\ ev' = [Ev("connect") EXCEPT !.by = IF force THEN "force" ELSE "plain"]
    /\ UNCHANGED <<lim, userCalled, rs, queue, sendQ, pending, pendingAck, lastAcks, ackSer, salt,
                   sequence, lastMsgId, offsetSrc, session, userConnected,
                   reconnecting, userDisconnected, authenticated, authKey,
                   sendLoop, recvLoop, nGen, wire, nRecv, nFault>>

\* connect(connection, force), up to the await on the first _connect()
connect(force) ==
    /\ task[0].pc = "idle"
    /\ IF userConnected /\ ~force
       THEN /\ ev' = [Ev("connectRefused") EXCEPT !.by = "plain"]
            /\ UNCHANGED <<isConnecting, connection, connState, nConn, task>>
       ELSE /\ nConn + Reserved < lim.conn
            /\ isConnecting' = TRUE
            /\ connection' = nConn + 1
            /\ nConn' = nConn + 1
            /\ connState' = [connState EXCEPT ![nConn + 1] = "new"]
            /\ task' = [task EXCEPT ![0] =
                           [pc |-> "connecting", attempt |-> 0, conn |-> nConn + 1,
                            by |-> "user"]]
            /\ ev' = [Ev("connect") EXCEPT !.by = IF force THEN "force" ELSE "plain"]
    /\ UNCHANGED <<lim, userCalled, rs, queue, sendQ, pending, pendingAck, lastAcks, ackSer, salt,
                   sequence, lastMsgId, offsetSrc, session, userConnected,
                   reconnecting, userDisconnected, authenticated, authKey,
                   sendLoop, recvLoop, nGen, wire, nRecv, nFault>>

\* _connect() succeeds: flags, the two loops up to their first await, then the
\* rest of connect(); for a connect() made by _reconnect, the end of _reconnect.
ConnectOk(t) ==
    /\ JobsDrained
    /\ task[t].pc = "connecting"
    /\ connState[task[t].conn] = "new"
    /\ LET g == nGen + 1
           f == SendLoopHead(LoopFields(TRUE, FALSE, pendingAck,
                                        [queue EXCEPT ![g] = <<>>], g, lastAcks, ackSer))
       IN /\ connState' = [connState EXCEPT ![task[t].conn] = "open"]
          /\ IF authKey
             THEN authenticated' = TRUE /\ UNCHANGED <<authKey, offsetSrc>>
             ELSE authKey' = TRUE /\ offsetSrc' = HandshakeOffset
                  /\ UNCHANGED authenticated
          /\ userConnected' = TRUE
          /\ reconnecting' = FALSE
          /\ nGen' = g
          /\ recvLoop' = [recvLoop EXCEPT ![g] = RecvLoopHead(TRUE, FALSE, connection)]
          /\ sendQ' = g
          /\ sendLoop' = [sendLoop EXCEPT ![g] = SendLoopAfter(f)]
          /\ lastAcks' = f.lastAcks
          /\ ackSer' = f.ackSer
          /\ pendingAck' = f.pendingAck
          /\ isConnecting' = FALSE
          /\ task' = [task EXCEPT ![t] = IdleTask]
          /\ IF t = 0
             THEN /\ queue' = f.queue
                  /\ UNCHANGED pending
                  /\ ev' = [Ev("connected") EXCEPT
                               !.g = g,
                               !.upd = IF HasUpdateCallback THEN "connected" ELSE "none"]
             ELSE /\ queue' = [f.queue EXCEPT ![g] = ReconnectTailQueue(@, pending)]
                  /\ pending' = <<>>
                  /\ ev' = [Ev("reconnected") EXCEPT
                               !.g = g,
                               !.by = task[t].by,
                               !.ids = ReqIdsOf(MapValues(pending)),
                               !.upd = IF HasUpdateCallback THEN "connected" ELSE "none",
                               !.cb = IF HasAutoReconnectCallback
                                      THEN "autoReconnect" ELSE "none"]
    /\ UNCHANGED <<lim, userCalled, rs, salt, sequence, lastMsgId, session, userDisconnected,
                   connection, nConn, wire, nRecv, nFault>>

\* _connect() throws: the catch block of connect(), then the sleep
ConnectFail(t) ==
    /\ JobsDrained
    /\ task[t].pc = "connecting"
    /\ task' = [task EXCEPT ![t].pc = "retry"]
    /\ ev' = [Ev("connectFailed") EXCEPT
                 !.upd = IF HasUpdateCallback /\ task[t].attempt = 0
                         THEN "disconnected" ELSE "none"]
    /\ UNCHANGED <<lim, userCalled, rs, queue, sendQ, pending, pendingAck, lastAcks, ackSer, salt,
                   sequence, lastMsgId, offsetSrc, session, userConnected,
                   reconnecting, userDisconnected, isConnecting, authenticated,
                   authKey, connection, connState, nConn, sendLoop, recvLoop, nGen,
                   wire, nRecv, nFault>>

\* the sleep is over: the next attempt, or the end of the for loop, after which
\* connect() returns true and a _reconnect runs to its end
ConnectRetry(t) ==
    /\ JobsDrained
    /\ task[t].pc = "retry"
    /\ IF task[t].attempt + 1 < Retries
       THEN /\ task' = [task EXCEPT ![t] = [pc |-> "connecting",
                                            attempt |-> task[t].attempt + 1,
                                            conn |-> connection,
                                            by |-> task[t].by]]
            /\ ev' = Ev("connectRetry")
            /\ UNCHANGED <<isConnecting, reconnecting, queue, pending>>
       ELSE /\ task' = [task EXCEPT ![t] = IdleTask]
            /\ isConnecting' = FALSE
            /\ IF t = 0
               THEN /\ ev' = Ev("connectGaveUp")
                    /\ UNCHANGED <<reconnecting, queue, pending>>
               ELSE /\ reconnecting' = FALSE
                    /\ queue' = [queue EXCEPT ![sendQ] = ReconnectTailQueue(@, pending)]
                    /\ pending' = <<>>
                    /\ ev' = [Ev("reconnectGaveUp") EXCEPT
                                 !.by = task[t].by,
                                 !.ids = ReqIdsOf(MapValues(pending)),
                                 !.cb = IF HasAutoReconnectCallback
                                        THEN "autoReconnect" ELSE "none"]
    /\ UNCHANGED <<lim, userCalled, rs, sendQ, pendingAck, lastAcks, ackSer, salt, sequence,
                   lastMsgId, offsetSrc, session, userConnected, userDisconnected,
                   authenticated, authKey, connection, connState, nConn, sendLoop,
                   recvLoop, nGen, wire, nRecv, nFault>>

\* disconnect() called by the user
disconnect ==
    /\ userDisconnected' = TRUE
    /\ userCalled' = TRUE
    /\ _disconnect
    /\ ev' = DisconnectEv("disconnect")
    /\ UNCHANGED <<lim, sendQ, pending, pendingAck, lastAcks, ackSer, salt, sequence,
                   lastMsgId, offsetSrc, session, reconnecting, isConnecting,
                   authenticated, authKey, connection, nConn, sendLoop, recvLoop,
                   nGen, task, wire, nRecv, nFault>>

\* faulty variant: no check of _userConnected
send_unchecked(i) ==
    /\ i <= lim.req
    /\ rs[i].st = "new"
    /\ \A j \in Req : j < i => rs[j].st # "new"
    /\ rs' = [rs EXCEPT ![i] = CreatedRS]
    /\ queue' = [queue EXCEPT ![sendQ] = Append(@, ReqE(i))]
    /\ ev' = [Ev("send") EXCEPT !.m = i, !.threw = ~userConnected]
    /\ UNCHANGED <<lim, userCalled, sendQ, pending, pendingAck, lastAcks, ackSer, salt, sequence,
                   lastMsgId, offsetSrc, session, userConnected, reconnecting,
                   userDisconnected, isConnecting, authenticated, authKey,
                   connection, connState, nConn, sendLoop, recvLoop, nGen, task,
                   wire, nRecv, nFault>>

\* send(request): requests are submitted in index order
send(i) ==
    /\ i <= lim.req
    /\ rs[i].st = "new"
    /\ \A j \in Req : j < i => rs[j].st # "new"
    /\ IF ~userConnected
       THEN /\ ev' = [Ev("send") EXCEPT !.m = i, !.threw = TRUE]
            /\ UNCHANGED <<rs, queue>>
       ELSE /\ rs' = [rs EXCEPT ![i] = CreatedRS]
            /\ queue' = [queue EXCEPT ![sendQ] = Append(@, ReqE(i))]
            /\ ev' = [Ev("send") EXCEPT !.m = i]
    /\ UNCHANGED <<lim, userCalled, sendQ, pending, pendingAck, lastAcks, ackSer, salt, sequence,
                   lastMsgId, offsetSrc, session, userConnected, reconnecting,
                   userDisconnected, isConnecting, authenticated, authKey,
                   connection, connState, nConn, sendLoop, recvLoop, nGen, task,
                   wire, nRecv, nFault>>

\* reconnect() called from outside the loops
UserReconnect ==
    /\ RoomForRc
    /\ reconnecting' = reconnect(task, "call").flag
    /\ task' = reconnect(task, "call").task
    /\ ev' = [Ev("reconnectCall") EXCEPT !.cb = IF WouldReconnect THEN "timer" ELSE "none"]
    /\ UNCHANGED <<lim, userCalled, rs, queue, sendQ, pending, pendingAck, lastAcks, ackSer, salt,
                   sequence, lastMsgId, offsetSrc, session, userConnected,
                   userDisconnected, isConnecting, authenticated, authKey,
                   connection, connState, nConn, sendLoop, recvLoop, nGen, wire,
                   nRecv, nFault>>

\* ------------------------------------------------------- _reconnect
\* the timer of reconnect() fires: _reconnect up to the await on disconnect()
ReconnectStart(t) ==
    /\ JobsDrained
    /\ t \in RcTasks
    /\ task[t].pc = "sleep"
    /\ userDisconnected' = TRUE
    /\ _disconnect
    /\ task' = [task EXCEPT ![t].pc = "closing"]
    /\ ev' = [DisconnectEv("reconnectStart") EXCEPT !.by = task[t].by]
    /\ UNCHANGED <<lim, userCalled, sendQ, pending, pendingAck, lastAcks, ackSer, salt, sequence,
                   lastMsgId, offsetSrc, session, reconnecting, isConnecting,
                   authenticated, authKey, connection, nConn, sendLoop, recvLoop,
                   nGen, wire, nRecv, nFault>>

\* faulty variant: state.reset() also forgets the last msg id handed out
ReconnectConnect_forgetIds(t) ==
    /\ JobsDrained
    /\ t \in RcTasks
    /\ task[t].pc = "closing"
    /\ queue' = [queue EXCEPT ![sendQ] = Append(@, Nil)]
    /\ sequence' = 0
    /\ lastMsgId' = 0
    /\ session' = session + 1
    /\ isConnecting' = TRUE
    /\ connection' = nConn + 1
    /\ nConn' = nConn + 1
    /\ connState' = [connState EXCEPT ![nConn + 1] = "new"]
    /\ task' = [task EXCEPT ![t] =
                   [pc |-> "connecting", attempt |-> 0, conn |-> nConn + 1,
                    by |-> task[t].by]]
    /\ ev' = [Ev("reconnectConnect") EXCEPT !.by = task[t].by]
    /\ UNCHANGED <<lim, userCalled, rs, sendQ, pending, pendingAck, lastAcks, ackSer, salt,
                   offsetSrc, userConnected, reconnecting,
                   userDisconnected, authenticated, authKey, sendLoop, recvLoop,
                   nGen, wire, nRecv, nFault>>

\* disconnect() is over: the sentinel, state.reset(), the new connection and
\* connect(newConnection, true) up to the await on _connect()
ReconnectConnect(t) ==
    /\ JobsDrained
    /\ t \in RcTasks
    /\ task[t].pc = "closing"
    /\ queue' = [queue EXCEPT ![sendQ] = Append(@, Nil)]
    /\ sequence' = 0
    /\ session' = session + 1
    /\ isConnecting' = TRUE
    /\ connection' = nConn + 1
    /\ nConn' = nConn + 1
    /\ connState' = [connState EXCEPT ![nConn + 1] = "new"]
    /\ task' = [task EXCEPT ![t] =
                   [pc |-> "connecting", attempt |-> 0, conn |-> nConn + 1,
                    by |-> task[t].by]]
    /\ ev' = [Ev("reconnectConnect") EXCEPT !.by = task[t].by]
    /\ UNCHANGED <<lim, userCalled, rs, sendQ, pending, pendingAck, lastAcks, ackSer, salt,
                   lastMsgId, offsetSrc, userConnected, reconnecting,
                   userDisconnected, authenticated, authKey, sendLoop, recvLoop,
                   nGen, wire, nRecv, nFault>>

\* -------------------------------------------------------- _sendLoop
\* get() returns (a batch, or nothing for the shutdown sentinel), then the
\* code up to the next await: the return on _reconnecting, the continue on an
\* empty result, or the start of encryption and the write
SendGet(g) ==
    /\ sendLoop[g].pc = "get"
    /\ queue[sendLoop[g].q] # <<>>
    /\ LET qi == sendLoop[g].q
           es == BatchPrefix(queue[qi])
           packed == PackEntries(es, lastMsgId)
           rest == IF es = <<>> THEN Tail(queue[qi])
                   ELSE SubSeq(queue[qi], Len(es) + 1, Len(queue[qi]))
           nIds == IF es = <<>> THEN 0
                   ELSE Len(es) + (IF Len(es) > 1 THEN 1 ELSE 0)
           f == SendLoopHead(LoopFields(userConnected, reconnecting, pendingAck,
                                        [queue EXCEPT ![qi] = rest], sendQ,
                                        StampAcks(lastAcks, packed), ackSer))
       IN /\ rs' = PackRs(rs, es, lastMsgId)
          /\ lastMsgId' = lastMsgId + nIds
          /\ sequence' = sequence + ContentRelated(es)
          /\ ev' = [Ev("sendGet") EXCEPT !.g = g, !.ids = ReqIdsOf(es),
                                         !.threw = reconnecting]
          /\ IF reconnecting
             THEN /\ sendLoop' = [sendLoop EXCEPT ![g] =
                                     [pc |-> "done", q |-> 0, es |-> <<>>, mids |-> {}]]
                  /\ queue' = [queue EXCEPT ![qi] = rest]
                  /\ lastAcks' = StampAcks(lastAcks, packed)
                  /\ UNCHANGED <<ackSer, pendingAck>>
             ELSE IF es = <<>>
             THEN /\ sendLoop' = [sendLoop EXCEPT ![g] = SendLoopAfter(f)]
                  /\ queue' = f.queue
                  /\ lastAcks' = f.lastAcks
                  /\ ackSer' = f.ackSer
                  /\ pendingAck' = f.pendingAck
             ELSE /\ sendLoop' = [sendLoop EXCEPT ![g] =
                                     [pc |-> "write", q |-> 0, es |-> packed,
                                      mids |-> BatchMsgIds(es, lastMsgId)]]
                  /\ queue' = [queue EXCEPT ![qi] = rest]
                  /\ lastAcks' = StampAcks(lastAcks, packed)
                  /\ UNCHANGED <<ackSer, pendingAck>>
    /\ UNCHANGED <<lim, userCalled, sendQ, pending, salt, offsetSrc, session, userConnected,
                   reconnecting, userDisconnected, isConnecting, authenticated,
                   authKey, connection, connState, nConn, recvLoop, nGen, task,
                   wire, nRecv, nFault>>

\* a send loop that forgets the batch it has written
InsertBatch_skip(p, es, r) == p

\* the for loop after the write: states whose request has classType "request"
\* enter the pending-state map under their msg id
RECURSIVE InsertBatch(_, _, _)
InsertBatch(p, es, r) ==
    IF es = <<>> THEN p
    ELSE InsertBatch(IF Head(es).kind = "req"
                     THEN MapSet(p, r[Head(es).id].msgId, Head(es).id) ELSE p,
                     Tail(es), r)

\* connection.send() succeeds on the attached connection; then the for loop
\* and the head of the next iteration
SendWriteOk(g) ==
    /\ JobsDrained
    /\ sendLoop[g].pc = "write"
    /\ connection # 0
    /\ connState[connection] = "open"
    /\ LET f == SendLoopHead(LoopFields(userConnected, reconnecting, pendingAck,
                                        queue, sendQ, lastAcks, ackSer))
       IN /\ wire' = wire \cup sendLoop[g].mids
          /\ pending' = InsertBatch(pending, sendLoop[g].es, rs)
          /\ sendLoop' = [sendLoop EXCEPT ![g] = SendLoopAfter(f)]
          /\ queue' = f.queue
          /\ lastAcks' = f.lastAcks
          /\ ackSer' = f.ackSer
          /\ pendingAck' = f.pendingAck
          /\ ev' = [Ev("sendWrite") EXCEPT !.g = g, !.ids = ReqIdsOf(sendLoop[g].es)]
    /\ UNCHANGED <<lim, userCalled, rs, sendQ, salt, sequence, lastMsgId, offsetSrc, session,
                   userConnected, reconnecting, userDisconnected, isConnecting,
                   authenticated, authKey, connection, connState, nConn, recvLoop,
                   nGen, task, nRecv, nFault>>

\* connection.send() throws (the connection is not open, or the transport
\* fails): the loop logs and returns
SendWriteFail(g) ==
    /\ JobsDrained
    /\ sendLoop[g].pc = "write"
    /\ IF connection # 0 /\ connState[connection] = "open"
       THEN nFault < lim.fault /\ nFault' = nFault + 1
       ELSE UNCHANGED nFault
    /\ sendLoop' = [sendLoop EXCEPT ![g] =
                       [pc |-> "done", q |-> 0, es |-> <<>>, mids |-> {}]]
    /\ ev' = [Ev("sendWriteFailed") EXCEPT !.g = g, !.ids = ReqIdsOf(sendLoop[g].es)]
    /\ UNCHANGED <<lim, userCalled, rs, queue, sendQ, pending, pendingAck, lastAcks, ackSer, salt,
                   sequence, lastMsgId, offsetSrc, session, userConnected,
                   reconnecting, userDisconnected, isConnecting, authenticated,
                   authKey, connection, connState, nConn, recvLoop, nGen, task,
                   wire, nRecv>>

\* -------------------------------------------------------- _recvLoop
\* messages the server may send in its next frame: replies refer to msg ids
\* it has received, its own msg ids grow with every frame
Refs == wire
NextSrv == SrvBase + nRecv + 1

PlainMsg(t, srv, m, code, body) ==
    [t |-> t, srv |-> srv, m |-> m, code |-> code, body |-> body, inner |-> <<>>]

ReplyMsgs(srv) ==
    (IF "rpc_result" \in lim.kinds
     THEN {PlainMsg("rpc_result", srv, m, c, b) : m \in Refs, c \in {0, 1}, b \in lim.bodies}
     ELSE {})
    \cup (IF "pong" \in lim.kinds
          THEN {PlainMsg("pong", srv, m, 0, 0) : m \in Refs} ELSE {})

MetaMsgs(srv) ==
    (IF "bad_server_salt" \in lim.kinds
     THEN {PlainMsg("bad_server_salt", srv, m, s, 0) : m \in Refs, s \in lim.salts}
     ELSE {})
    \cup (IF "bad_msg_notification" \in lim.kinds
          THEN {PlainMsg("bad_msg_notification", srv, m, c, 0) :
                    m \in Refs, c \in lim.codes}
          ELSE {})
    \cup (IF "msgs_ack" \in lim.kinds
          THEN {PlainMsg("msgs_ack", srv, m, 0, 0) : m \in Refs} ELSE {})
    \cup {PlainMsg(t, srv, AnswerBase + nRecv + 1, 0, 0) :
              t \in {"msg_detailed_info", "msg_new_detailed_info"} \cap lim.kinds}
    \cup (IF "new_session_created" \in lim.kinds
          THEN {PlainMsg("new_session_created", srv, 0, s, 0) : s \in lim.salts}
          ELSE {})
    \cup {PlainMsg(t, srv, 0, 0, 0) :
              t \in {"future_salts", "msgs_state_req", "msgs_all_info"} \cap lim.kinds}
    \cup (IF "update" \in lim.kinds
          THEN {PlainMsg("update", srv, 0, c, 0) : c \in {0, 1}} ELSE {})

\* a container of two results (inner msg ids below the container's), and a
\* gzip-packed result
InnerMsgs(srv) == {PlainMsg("rpc_result", srv, m, 0, b) : m \in Refs, b \in {BodyOther}}

Messages ==
    ReplyMsgs(NextSrv) \cup MetaMsgs(NextSrv)
    \cup (IF "msg_container" \in lim.kinds
          THEN {[t |-> "msg_container", srv |-> NextSrv, m |-> 0, code |-> 0,
                 body |-> 0, inner |-> <<a, b>>] :
                    a \in InnerMsgs(NextSrv - 2), b \in InnerMsgs(NextSrv - 1)}
          ELSE {})
    \cup (IF "gzip_packed" \in lim.kinds
          THEN {[t |-> "gzip_packed", srv |-> NextSrv, m |-> 0, code |-> 0,
                 body |-> 0, inner |-> <<a>>] : a \in InnerMsgs(NextSrv)}
          ELSE {})

Handler ==
    [rs |-> rs, q |-> queue[sendQ], pending |-> pending, pendingAck |-> pendingAck,
     lastAcks |-> lastAcks, salt |-> salt, sequence |-> sequence,
     offsetSrc |-> offsetSrc, threw |-> FALSE, ids |-> <<>>, saltAt |-> 0,
     upd |-> "none"]

\* recv() and decryptMessageData() succeed: the message is processed (an
\* exception is logged), then the loop condition is read again
RecvReady(g) ==
    /\ JobsDrained
    /\ recvLoop[g].pc = "recv"
    /\ connState[recvLoop[g].conn] = "open"
    /\ nRecv < lim.recv

RecvMsg(g, msg) ==
    /\ nRecv' = nRecv + 1
    /\ LET h == _processMessage(Handler, msg)
       IN /\ rs' = h.rs
          /\ queue' = [queue EXCEPT ![sendQ] = h.q]
          /\ pending' = h.pending
          /\ pendingAck' = h.pendingAck
          /\ salt' = h.salt
          /\ sequence' = h.sequence
          /\ offsetSrc' = h.offsetSrc
          /\ ev' = [Ev(msg.t) EXCEPT !.g = g, !.m = msg.m, !.srv = msg.srv,
                                     !.code = msg.code, !.body = msg.body,
                                     !.ids = h.ids, !.upd = h.upd,
                                     !.saltAt = h.saltAt, !.threw = h.threw]
    /\ recvLoop' = [recvLoop EXCEPT ![g] =
                       RecvLoopHead(userConnected, reconnecting, connection)]
    /\ UNCHANGED <<lim, userCalled, sendQ, lastAcks, ackSer, lastMsgId, session, userConnected,
                   reconnecting, userDisconnected, isConnecting, authenticated,
                   authKey, connection, connState, nConn, sendLoop, nGen, task,
                   wire, nFault>>

\* recv() throws: a reconnect unless the user disconnected, and the loop returns
RecvFail(g) ==
    /\ JobsDrained
    /\ recvLoop[g].pc = "recv"
    /\ IF connState[recvLoop[g].conn] = "open"
       THEN nFault < lim.fault /\ nFault' = nFault + 1
       ELSE UNCHANGED nFault
    /\ IF ~userDisconnected
       THEN /\ WouldReconnect => RoomForRc
            /\ reconnecting' = reconnect(task, "recv").flag
            /\ task' = reconnect(task, "recv").task
            /\ ev' = [Ev("recvFailed") EXCEPT
                         !.g = g, !.cb = IF WouldReconnect THEN "timer" ELSE "none"]
       ELSE /\ UNCHANGED <<reconnecting, task>>
            /\ ev' = [Ev("recvFailed") EXCEPT !.g = g]
    /\ recvLoop' = [recvLoop EXCEPT ![g] = [pc |-> "done", conn |-> 0]]
    /\ UNCHANGED <<lim, userCalled, rs, queue, sendQ, pending, pendingAck, lastAcks, ackSer, salt,
                   sequence, lastMsgId, offsetSrc, session, userConnected,
                   userDisconnected, isConnecting, authenticated, authKey,
                   connection, connState, nConn, sendLoop, nGen, wire, nRecv>>

DecryptErrors == {"TypeNotFoundError", "SecurityError", "InvalidBuffer404",
                  "InvalidBufferOther", "OtherError"}

\* faulty variant: a reconnect is requested for code 404 as well
RecvDecryptFail_reconnect404(g, err) ==
    /\ JobsDrained
    /\ recvLoop[g].pc = "recv"
    /\ connState[recvLoop[g].conn] = "open"
    /\ nRecv < lim.recv
    /\ nRecv' = nRecv + 1
    /\ IF err \in {"TypeNotFoundError", "SecurityError"}
       THEN /\ recvLoop' = [recvLoop EXCEPT ![g] =
                               RecvLoopHead(userConnected, reconnecting, connection)]
            /\ ev' = [Ev(err) EXCEPT !.g = g]
            /\ UNCHANGED <<reconnecting, task>>
       ELSE /\ WouldReconnect => RoomForRc
            /\ recvLoop' = [recvLoop EXCEPT ![g] = [pc |-> "done", conn |-> 0]]
            /\ reconnecting' = reconnect(task, "recv").flag
            /\ task' = reconnect(task, "recv").task
            /\ ev' = [Ev(err) EXCEPT
                         !.g = g,
                         !.upd = IF err = "InvalidBuffer404" /\ HasUpdateCallback
                                    /\ IsMainSender
                                 THEN "broken" ELSE "none",
                         !.cb = IF err = "InvalidBuffer404"
                                   /\ ~(HasUpdateCallback /\ IsMainSender)
                                   /\ HasOnConnectionBreak /\ ~IsMainSender
                                THEN "onConnectionBreak"
                                ELSE IF WouldReconnect THEN "timer" ELSE "none"]
    /\ UNCHANGED <<lim, userCalled, rs, queue, sendQ, pending, pendingAck, lastAcks, ackSer, salt,
                   sequence, lastMsgId, offsetSrc, session, userConnected,
                   userDisconnected, isConnecting, authenticated, authKey,
                   connection, connState, nConn, sendLoop, nGen, wire, nFault>>

\* decryptMessageData() throws
RecvDecryptFail(g, err) ==
    /\ JobsDrained
    /\ recvLoop[g].pc = "recv"
    /\ connState[recvLoop[g].conn] = "open"
    /\ nRecv < lim.recv
    /\ nRecv' = nRecv + 1
    /\ IF err \in {"TypeNotFoundError", "SecurityError"}
       THEN /\ recvLoop' = [recvLoop EXCEPT ![g] =
                               RecvLoopHead(userConnected, reconnecting, connection)]
            /\ ev' = [Ev(err) EXCEPT !.g = g]
            /\ UNCHANGED <<reconnecting, task>>
       ELSE IF err = "InvalidBuffer404"
       THEN /\ recvLoop' = [recvLoop EXCEPT ![g] = [pc |-> "done", conn |-> 0]]
            /\ ev' = [Ev(err) EXCEPT
                         !.g = g,
                         !.upd = IF HasUpdateCallback /\ IsMainSender
                                 THEN "broken" ELSE "none",
                         !.cb = IF ~(HasUpdateCallback /\ IsMainSender)
                                   /\ HasOnConnectionBreak /\ ~IsMainSender
                                THEN "onConnectionBreak" ELSE "none"]
            /\ UNCHANGED <<reconnecting, task>>
       ELSE /\ WouldReconnect => RoomForRc
            /\ recvLoop' = [recvLoop EXCEPT ![g] = [pc |-> "done", conn |-> 0]]
            /\ reconnecting' = reconnect(task, "recv").flag
            /\ task' = reconnect(task, "recv").task
            /\ ev' = [Ev(err) EXCEPT
                         !.g = g, !.cb = IF WouldReconnect THEN "timer" ELSE "none"]
    /\ UNCHANGED <<lim, userCalled, rs, queue, sendQ, pending, pendingAck, lastAcks, ackSer, salt,
                   sequence, lastMsgId, offsetSrc, session, userConnected,
                   userDisconnected, isConnecting, authenticated, authKey,
                   connection, connState, nConn, sendLoop, nGen, wire, nFault>>

\* ------------------------------------------------------ specification
\* One connection, the caller's requests, every kind of server message.
NextProto ==
    \/ \E force \in BOOLEAN : connect(force)
    \/ ConnectOk(0)
    \/ \E i \in Req : send(i)
    \/ \E g \in Gens : SendGet(g)
    \/ \E g \in Gens : SendWriteOk(g)
    \/ \E g \in Gens : RecvReady(g) /\ \E msg \in Messages : RecvMsg(g, msg)

SpecProto == InitProto /\ [][NextProto]_vars

\* Connects, disconnects, transport faults and reconnects.
NextLife ==
    \/ \E force \in BOOLEAN : connect(force)
    \/ \E t \in Tasks : ConnectOk(t)
    \/ \E t \in Tasks : ConnectFail(t)
    \/ \E t \in Tasks : ConnectRetry(t)
    \/ disconnect
    \/ \E i \in Req : send(i)
    \/ UserReconnect
    \/ \E t \in RcTasks : ReconnectStart(t)
    \/ \E t \in RcTasks : ReconnectConnect(t)
    \/ \E g \in Gens : SendGet(g)
    \/ \E g \in Gens : SendWriteOk(g)
    \/ \E g \in Gens : SendWriteFail(g)
    \/ \E g \in Gens : RecvReady(g) /\ \E msg \in Messages : RecvMsg(g, msg)
    \/ \E g \in Gens : RecvFail(g)
    \/ \E g \in Gens : \E err \in DecryptErrors : RecvDecryptFail(g, err)

SpecLife == InitLife /\ [][NextLife]_vars

SpecOnce == InitOnce /\ [][NextLife]_vars

SpecAcks == InitAcks /\ [][NextProto]_vars

\* Connects, disconnects, receive failures and reconnects of an idle sender.
NextGuard ==
    \/ \E force \in BOOLEAN : connect(force)
    \/ \E t \in Tasks : ConnectOk(t)
    \/ \E t \in Tasks : ConnectFail(t)
    \/ \E t \in Tasks : ConnectRetry(t)
    \/ disconnect
    \/ UserReconnect
    \/ \E t \in RcTasks : ReconnectStart(t)
    \/ \E t \in RcTasks : ReconnectConnect(t)
    \/ \E g \in Gens : SendGet(g)
    \/ \E g \in Gens : RecvFail(g)

SpecGuard == InitGuard /\ [][NextGuard]_vars

\* Scheduling: a continuation that can run is run, a timer that is due fires,
\* and a read or write on a closed connection fails.  Calls of the user and
\* faults of an open transport are not bound to happen.
LoopFairness ==
    /\ \A g \in Gens : WF_vars(SendGet(g))
    /\ \A g \in Gens : WF_vars(SendWriteOk(g) \/ SendWriteFail(g))
    /\ \A g \in Gens : WF_vars(RecvFail(g) /\ nFault' = nFault)
    /\ \A t \in Tasks : WF_vars(ConnectOk(t) \/ ConnectFail(t))
    /\ \A t \in Tasks : WF_vars(ConnectRetry(t))
    /\ \A t \in RcTasks : WF_vars(ReconnectStart(t))
    /\ \A t \in RcTasks : WF_vars(ReconnectConnect(t))

SpecCancel == InitBreak /\ [][NextLife]_vars /\ LoopFairness

SpecBreak == InitBreak /\ [][NextLife]_vars

\* ================================================================ properties
\* The step that has just been taken is described by ev; a property of one
\* operation is a property of every step whose ev'.op names the operation.

\* request ids linked to msg id m in pending-state map p: the entry keyed by m,
\* or else every entry whose state was sent in the container with id m
LinkedIds(p, r, m) ==
    IF MapHas(p, m) THEN <<MapGetId(p, m)>>
    ELSE ReqIdsOf(SelectSeq(p, LAMBDA e : r[e.id].containerId # 0
                                          /\ r[e.id].containerId = m))

InMap(p, i) == \E n \in 1..Len(p) : p[n].id = i

ReqEs(ids) == [n \in 1..Len(ids) |-> ReqE(ids[n])]

\* C1: when the receive loop dispatches an rpc_result that carries no error and
\* whose reqMsgId keys a state of the pending-state map, that state's handle is
\* resolved with request.readResult(body), the key leaves the map, and the msg
\* id of the carrying server message is in the pending-ack set.
C1_RpcResultResolves ==
    [][(ev'.op = "rpc_result" /\ ev'.code = 0 /\ MapHas(pending, ev'.m)) =>
         LET i == MapGetId(pending, ev'.m) IN
           /\ rs[i].st = "pending"
           /\ rs'[i].st = "resolved"
           /\ rs'[i].res = ReadResult(i, ev'.body)
           /\ ~MapHas(pending', ev'.m)
           /\ ~InMap(pending', i)
           /\ ev'.srv \in pendingAck']_vars

C1_Witness ==
    /\ ev.op = "rpc_result" /\ ev.code = 0 /\ Len(ev.ids) = 1
    /\ rs[ev.ids[1]].st = "resolved"
    /\ rs[ev.ids[1]].res = ReadResult(ev.ids[1], ev.body)
    /\ rs[ev.ids[1]].msgId = ev.m
    /\ ~MapHas(pending, ev.m)
    /\ ev.srv \in pendingAck

\* C9: on bad_server_salt(badMsgId M, newServerSalt S) the session salt becomes
\* S, every state linked to M leaves the pending-state map and is appended to
\* the send queue in order, none of them is resolved or rejected, and S is
\* already the salt when they are re-queued.
C9_BadSaltRequeues ==
    [][ev'.op = "bad_server_salt" =>
         LET ids == LinkedIds(pending, rs, ev'.m) IN
           /\ salt' = ev'.code
           /\ ev'.saltAt = ev'.code
           /\ ev'.ids = ids
           /\ \A n \in 1..Len(ids) : ~InMap(pending', ids[n])
           /\ queue'[sendQ'] = queue[sendQ] \o ReqEs(ids)
           /\ \A n \in 1..Len(ids) : rs[ids[n]].st = "pending"
           /\ rs' = rs]_vars

C9_Witness ==
    /\ ev.op = "bad_server_salt" /\ Len(ev.ids) >= 1
    /\ salt = ev.code /\ ev.saltAt = ev.code
    /\ \A n \in 1..Len(ev.ids) :
          /\ rs[ev.ids[n]].st = "pending"
          /\ ~InMap(pending, ev.ids[n])
          /\ \E k \in 1..Len(queue[sendQ]) : queue[sendQ][k] = ReqE(ev.ids[n])

\* C10: on bad_msg_notification with error code 16 or 17 the time offset is
\* recomputed from the msg id of the notification itself, the states linked to
\* the bad msg id leave the pending-state map and are appended to the send
\* queue in order, and none of them is rejected.
C10_BadMsgTimeRequeues ==
    [][(ev'.op = "bad_msg_notification" /\ ev'.code \in {16, 17}) =>
         LET ids == LinkedIds(pending, rs, ev'.m) IN
           /\ offsetSrc' = ev'.srv
           /\ ev'.ids = ids
           /\ \A n \in 1..Len(ids) : ~InMap(pending', ids[n])
           /\ queue'[sendQ'] = queue[sendQ] \o ReqEs(ids)
           /\ \A n \in 1..Len(ids) : rs[ids[n]].st = "pending"
           /\ rs' = rs]_vars

C10_Witness ==
    /\ ev.op = "bad_msg_notification" /\ ev.code = 17 /\ Len(ev.ids) >= 1
    /\ offsetSrc = ev.srv
    /\ \A n \in 1..Len(ev.ids) :
          /\ rs[ev.ids[n]].st = "pending"
          /\ ~InMap(pending, ev.ids[n])
          /\ \E k \in 1..Len(queue[sendQ]) : queue[sendQ][k] = ReqE(ev.ids[n])

Settled(r) == r.st \in {"resolved", "rejected"}

\* C2: the handle of an accepted request is settled at most once: a pending
\* handle is settled by exactly one call of resolve or reject, and once it is
\* settled no step calls resolve or reject on it again or changes its outcome.
C2_SettledOnce ==
    [][\A i \in Req :
         /\ rs[i].st = "pending" =>
               \/ rs'[i].st = "pending" /\ rs'[i].calls = 0
               \/ Settled(rs'[i]) /\ rs'[i].calls = 1
         /\ Settled(rs[i]) =>
               /\ rs'[i].st = rs[i].st
               /\ rs'[i].res = rs[i].res
               /\ rs'[i].calls = rs[i].calls]_vars

\* a second message for the msg id of a request that is already settled
C2_Witness ==
    /\ nRecv = 2
    /\ ev.op \in {"rpc_result", "pong", "bad_msg_notification"}
    /\ ev.ids = <<>>
    /\ \E i \in Req : Settled(rs[i]) /\ rs[i].msgId = ev.m /\ rs[i].calls = 1

\* C3: send() while isConnected() is false throws synchronously and leaves the
\* send queue, the pending-state map, the pending-ack set and the request
\* untouched.
C3_SendNotConnected ==
    [][(ev'.op = "send" /\ ~isConnected) =>
         /\ ev'.threw
         /\ rs' = rs
         /\ queue' = queue
         /\ pending' = pending
         /\ pendingAck' = pendingAck]_vars

\* after a disconnect() that followed a successful connect
C3_Witness ==
    /\ ev.op = "send" /\ ev.threw
    /\ ~isConnected /\ userCalled /\ nGen >= 1
    /\ rs[ev.m].st = "new"

\* C4: at the end of _reconnect every state of the pending-state map is at
\* the end of the current send queue, in the insertion order of the map, and
\* the map is empty.
C4_ReconnectRequeues ==
    [][ev'.op \in {"reconnected", "reconnectGaveUp"} =>
         LET q == queue'[sendQ']
             k == Len(pending)
         IN /\ pending' = <<>>
            /\ Len(q) >= k
            /\ SubSeq(q, Len(q) - k + 1, Len(q)) = MapValues(pending)
            /\ ev'.ids = ReqIdsOf(MapValues(pending))]_vars

\* both requests were written before the failure and are queued again in order
C4_Witness ==
    /\ ev.op = "reconnected" /\ ev.by = "recv" /\ ev.ids = <<1, 2>> /\ ~userCalled
    /\ pending = <<>>
    /\ Len(queue[sendQ]) >= 2
    /\ SubSeq(queue[sendQ], Len(queue[sendQ]) - 1, Len(queue[sendQ])) = <<ReqE(1), ReqE(2)>>
    /\ rs[1].st = "pending" /\ rs[2].st = "pending"

ReconnectOps == {"reconnectStart", "reconnectConnect", "reconnected", "reconnectGaveUp"}

\* C5: no step of a reconnect sequence started by a receive failure rejects the handle of an accepted
\* request, whether the request waits in the send queue or is held in the
\* pending-state map.
C5_ReconnectRejectsNone ==
    [][(ev'.op \in ReconnectOps /\ ev'.by = "recv") =>
         \A i \in Req : rs[i].st = "pending" => rs'[i].st = "pending"]_vars

RcInFlight(tk) == \E t \in RcTasks : tk[t].pc # "idle"

\* C6: whenever recv() fails in a running receive loop and the user has not
\* called disconnect(), a reconnect is scheduled (or one is already under way)
\* and the loop exits.
C6_RecvFailureReconnects ==
    [][(ev'.op = "recvFailed" /\ ~userCalled) =>
         /\ RcInFlight(task')
         /\ recvLoop'[ev'.g].pc = "done"]_vars

\* C7: disconnect() called by the user sets userDisconnected, rejects every
\* queued RequestState with the disconnected error, empties the queue, emits
\* the disconnected update, closes the connection and leaves isConnected()
\* false.
C7_UserDisconnect ==
    [][ev'.op = "disconnect" =>
         /\ userDisconnected' /\ userCalled'
         /\ \A n \in 1..Len(queue[sendQ]) :
               queue[sendQ][n].kind = "req" =>
                 /\ rs[queue[sendQ][n].id].st = "pending"
                 /\ rs'[queue[sendQ][n].id].st = "rejected"
                 /\ rs'[queue[sendQ][n].id].res = DisconnectError
         /\ queue'[sendQ'] = <<>>
         /\ ev'.upd = "disconnected"
         /\ connection # 0 => connState'[connection'] = "closed"
         /\ ~isConnected']_vars

C7_Witness ==
    /\ ev.op = "disconnect" /\ Len(ev.ids) >= 1 /\ ev.upd = "disconnected"
    /\ \A n \in 1..Len(ev.ids) :
          rs[ev.ids[n]].st = "rejected" /\ rs[ev.ids[n]].res = DisconnectError
    /\ queue[sendQ] = <<>>
    /\ connection # 0 /\ connState[connection] = "closed"
    /\ userDisconnected /\ ~isConnected

\* C8: after disconnect() called by the user no accepted request still has a
\* pending handle: those held in the pending-state map are rejected as well.
C8_UserDisconnectSettlesAll ==
    [][ev'.op = "disconnect" =>
         \A i \in Req : rs[i].st = "pending" => rs'[i].st = "rejected"]_vars

\* C11: on bad_msg_notification with an error code other than 16, 17, 32 and
\* 33 every state linked to the bad msg id is rejected with a BadMessageError
\* carrying the code, leaves the pending-state map and is not queued again;
\* the time offset and the sequence counter stay as they are.
C11_BadMsgRejects ==
    [][(ev'.op = "bad_msg_notification" /\ ev'.code \notin {16, 17, 32, 33}) =>
         LET ids == LinkedIds(pending, rs, ev'.m) IN
           /\ ev'.ids = ids
           /\ \A n \in 1..Len(ids) :
                 /\ rs[ids[n]].st = "pending"
                 /\ rs'[ids[n]].st = "rejected"
                 /\ rs'[ids[n]].res = BadMessageError(ids[n], ev'.code)
                 /\ ~InMap(pending', ids[n])
           /\ queue'[sendQ'] = queue[sendQ]
           /\ offsetSrc' = offsetSrc
           /\ sequence' = sequence]_vars

C11_Witness ==
    /\ ev.op = "bad_msg_notification" /\ ev.code = 48 /\ Len(ev.ids) >= 1
    /\ \A n \in 1..Len(ev.ids) :
          /\ rs[ev.ids[n]].st = "rejected"
          /\ rs[ev.ids[n]].res = BadMessageError(ev.ids[n], 48)
          /\ ~InMap(pending, ev.ids[n])
          /\ \A k \in 1..Len(queue[sendQ]) : queue[sendQ][k] # ReqE(ev.ids[n])

\* C12: the last-acks ring never holds more than 10 entries, and a push that
\* evicts an entry evicts the oldest one: the ring after a push is the ring
\* before it, possibly without its first entry, followed by the new ack.
C12_LastAcksRing ==
    /\ [](Len(lastAcks) <= 10)
    /\ [][ackSer' # ackSer =>
            /\ ackSer' = ackSer + 1
            /\ Len(lastAcks') >= 1
            /\ LET new == lastAcks'[Len(lastAcks')] IN
                 /\ new.kind = "ack" /\ new.id = ackSer'
                 /\ \/ lastAcks' = Append(lastAcks, new)
                    \/ lastAcks' = Append(Tail(lastAcks), new)]_vars

\* the tenth push has evicted the first ack
C12_Witness ==
    /\ ackSer = 10
    /\ Len(lastAcks) = 9
    /\ \A n \in 1..9 : lastAcks[n].id = n + 1

\* the batch holds a MsgsAck made by the ack step (not by _handleRPCResult)
HasAck(es) == \E n \in 1..Len(es) : es[n].kind = "ack" /\ es[n].id # 0

\* C13 as stated: when a send-loop iteration that drained the pending-ack
\* set at its top has finished (write done, states inserted), the pending-ack
\* set is empty.
C13_EmptyAfterIteration ==
    [][(ev'.op = "sendWrite" /\ HasAck(sendLoop[ev'.g].es)) => pendingAck = {}]_vars

\* C13, amended: the ack step at the top of an iteration leaves the
\* pending-ack set empty and puts everything it held into one MsgsAck request
\* on the send queue; msg ids of frames received later in the iteration stay
\* in the set until the ack step of the next iteration.
C13_DrainedAtTop ==
    [][(ev'.op \in {"sendWrite", "sendGet", "connected", "reconnected"}
        /\ sendLoop'[ev'.g].pc = "get") =>
         /\ pendingAck' = {}
         /\ IF pendingAck = {} THEN ackSer' = ackSer
            ELSE /\ ackSer' = ackSer + 1
                 /\ \E n \in 1..Len(queue'[sendLoop'[ev'.g].q]) :
                       queue'[sendLoop'[ev'.g].q][n] = AckE(ackSer', pendingAck)]_vars

\* two frames were drained into one MsgsAck by the ack step after a write
C13_Witness ==
    /\ ev.op = "sendWrite" /\ sendLoop[ev.g].pc = "get"
    /\ pendingAck = {}
    /\ \E n \in 1..Len(queue[sendQ]) :
          queue[sendQ][n] = AckE(ackSer, {SrvBase + 1, SrvBase + 2})

\* C14: when decryption fails with InvalidBufferError code 404 the receive
\* loop exits and no reconnect is scheduled; a sender that is not the main
\* sender calls onConnectionBreak once and emits no broken update, the main
\* sender emits the broken update and does not call onConnectionBreak.
C14_BrokenKey ==
    [][ev'.op = "InvalidBuffer404" =>
         /\ recvLoop'[ev'.g].pc = "done"
         /\ task' = task
         /\ reconnecting' = reconnecting
         /\ IF IsMainSender
            THEN ev'.upd = "broken" /\ ev'.cb = "none"
            ELSE ev'.cb = "onConnectionBreak" /\ ev'.upd = "none"]_vars

C14_Witness ==
    /\ ev.op = "InvalidBuffer404" /\ ~IsMainSender
    /\ ev.cb = "onConnectionBreak" /\ ev.upd = "none"
    /\ recvLoop[ev.g].pc = "done"
    /\ userConnected /\ ~reconnecting /\ \A t \in RcTasks : task[t].pc = "idle"

\* the same on a main sender
C14_WitnessMain ==
    /\ ev.op = "InvalidBuffer404" /\ IsMainSender
    /\ ev.upd = "broken" /\ ev.cb = "none"
    /\ recvLoop[ev.g].pc = "done"

C16_ConnectRefused ==
    [][(ev'.op \in {"connect", "connectRefused"} /\ ev'.by = "plain" /\ isConnected) =>
         /\ ev'.op = "connectRefused"
         /\ ev'.upd = "none"
         /\ UNCHANGED <<rs, queue, sendQ, pending, pendingAck, lastAcks, ackSer, salt,
                        sequence, lastMsgId, offsetSrc, session, userConnected,
                        reconnecting, userDisconnected, isConnecting,
                        authenticated, authKey, connection, connState, nConn,
                        sendLoop, recvLoop, nGen, task, wire>>]_vars

C16_Witness ==
    /\ ev.op = "connectRefused" /\ ev.by = "plain"
    /\ isConnected /\ ~isConnecting
    /\ connection = 1 /\ nConn = 1 /\ nGen = 1
    /\ sendLoop[1].pc = "get" /\ recvLoop[1].pc = "recv"
    /\ task[0].pc = "idle"

\* C17: calls of reconnect() made while reconnecting is true have no effect,
\* and at most one reconnect sequence (its timer or its _reconnect) is in
\* flight at any time.
C17_OneReconnectInFlight ==
    /\ [](Cardinality({t \in RcTasks : task[t].pc # "idle"}) <= 1)
    /\ [][(ev'.op \in {"reconnectCall", "recvFailed"} /\ reconnecting) =>
            /\ task' = task /\ reconnecting']_vars

\* C18: autoReconnectCallback is invoked only at the end of a reconnect
\* sequence whose connect succeeded: at that moment isConnected() is true and
\* the send and receive loops of the new connection have been started.
C18_CallbackAfterSuccess ==
    [][ev'.cb = "autoReconnect" =>
         /\ isConnected'
         /\ ev'.g = nGen' /\ ev'.g \in Gens
         /\ sendLoop'[nGen'].pc # "none" /\ recvLoop'[nGen'].pc # "none"]_vars

C20_LoopsExit ==
    \A g \in Gens :
        [](((ev.op = "disconnect" /\ sendLoop[g].pc # "none")) =>
              <>(sendLoop[g].pc = "done" /\ recvLoop[g].pc = "done"))

\* C21: when a received container has been dispatched, the msg id of each of
\* its inner messages is in the pending-ack set, whatever the handler of an
\* earlier inner message did.
C21_ContainerProcessesAll ==
    [][ev'.op = "msg_container" =>
         {ev'.srv - 2, ev'.srv - 1, ev'.srv} \subseteq pendingAck']_vars

\* what _popStates(M) is said to return: the state under key M, else the
\* states of container M, else the ack of the ring sent as M, else nothing
ClaimedPop(p, r, acks, M) ==
    IF MapHas(p, M) THEN <<ReqE(MapGetId(p, M))>>
    ELSE LET c == SelectSeq(p, LAMBDA e : r[e.id].containerId = M)
             a == SelectSeq(acks, LAMBDA x : x.mid = M)
         IN IF c # <<>> THEN ReqEs(ReqIdsOf(c))
            ELSE IF a # <<>> THEN <<Head(a)>> ELSE <<>>

\* C22: the states a bad_server_salt for M puts back on the send queue are
\* the ones _popStates(M) is said to return, in that order of precedence, and
\* the pending-state map loses exactly the requests among them.
C22_PopStatesPrecedence ==
    [][ev'.op = "bad_server_salt" =>
         LET exp == ClaimedPop(pending, rs, lastAcks, ev'.m) IN
           /\ queue'[sendQ] = queue[sendQ] \o exp
           /\ pending' = SelectSeq(pending,
                             LAMBDA e : \A n \in 1..Len(exp) :
                                 ~(exp[n].kind = "req" /\ exp[n].id = e.id))]_vars

\* C23: a msgs_ack for the msg id of a pending auth.LogOut request removes
\* that state from the pending-state map and resolves its handle with true;
\* every other request is left as it was.
C23_AckResolvesLogOut ==
    [][ev'.op = "msgs_ack" =>
         LET i == MapGetId(pending, ev'.m)
             hit == i # NoState /\ RequestClass(i) = "auth.LogOut"
         IN /\ hit => /\ ~MapHas(pending', ev'.m)
                       /\ (rs[i].st = "pending" =>
                              rs'[i].st = "resolved" /\ rs'[i].res.k = "true")
            /\ \A j \in Req : (~hit \/ j # i) =>
                   /\ rs'[j] = rs[j]
                   /\ InMap(pending', j) = InMap(pending, j)]_vars

\* C24: every entry of the pending-state map is a request whose handle is
\* pending, stored under its current msg id, and not in the send queue.
C24_PendingInvariant ==
    \A n \in 1..Len(pending) :
        LET i == pending[n].id IN
          /\ rs[i].st = "pending"
          /\ rs[i].msgId = pending[n].key
          /\ \A k \in 1..Len(queue[sendQ]) :
                 ~(queue[sendQ][k].kind = "req" /\ queue[sendQ][k].id = i)

\* a request that was queued again is stored under the msg id of its second
\* sending while another request waits in the send queue
C24_Witness ==
    /\ ev.op = "sendWrite"
    /\ InMap(pending, 1) /\ rs[1].msgId > 1
    /\ \E k \in 1..Len(queue[sendQ]) :
           queue[sendQ][k].kind = "req" /\ queue[sendQ][k].id = 2

\* request i is an entry of the sequence es
HoldsReq(es, i) == \E n \in 1..Len(es) : es[n].kind = "req" /\ es[n].id = i

\* C25: every accepted request whose handle is pending is in a send queue, in
\* the batch a running send loop is encrypting or writing, or in the
\* pending-state map.
C25_NoRequestDropped ==
    \A i \in Req :
        rs[i].st = "pending" =>
            \/ \E q \in DOMAIN queue : HoldsReq(queue[q], i)
            \/ \E g \in Gens : sendLoop[g].pc = "write" /\ HoldsReq(sendLoop[g].es, i)
            \/ InMap(pending, i)

\* C26: a send loop takes batches only from the send queue created for it,
\* never from the queue of a send loop started after it.
C26_SingleWriter ==
    [][\A g \in Gens :
         (sendLoop[g].pc = "get" /\ sendLoop'[g].pc = "write") =>
             sendLoop[g].q = g]_vars

\* C27: whenever connect() returns true, isConnected() is true and a send
\* loop and a receive loop have been started on the given connection.
C27_TrueMeansConnected ==
    [][ev'.op \in {"connected", "connectGaveUp", "reconnected", "reconnectGaveUp"} =>
         /\ isConnected'
         /\ nGen' \in Gens
         /\ sendLoop'[nGen'].pc # "none"
         /\ recvLoop'[nGen'].pc # "none"
         /\ connState'[connection'] = "open"]_vars

\* C28: the sequence counter stays within 0 .. 2^31 - 1 under bad message
\* notifications with codes 32 and 33, and each adjustment keeps its parity.
C28_SequenceInRange ==
    /\ [](sequence >= 0 /\ sequence <= 2147483647)
    /\ [][(ev'.op = "bad_msg_notification" /\ ev'.code \in {32, 33}) =>
            (sequence' - sequence) % 2 = 0]_vars

====
